---- MODULE Spec2Model ----
(***************************************************************************)
(* Discrete-time PID simulation of the "Basic PID Implementation"          *)
(* notebook.  The notebook's cells are executed top to bottom; each cell   *)
(* is one action, and each iteration of the simulation loop is one action. *)
(* Real numbers are exact rationals <<num, den>> in lowest terms with      *)
(* den > 0.  Array index k of the notebook is element k+1 of a sequence.   *)
(***************************************************************************)
EXTENDS Integers, Sequences, FiniteSets, TLC

(* ------------------------------ bounds --------------------------------- *)
MaxFs == 2
MaxTf2 == 4
MaxTau == 2
MaxGain == 1
MaxSp == 2
MaxU == 1
MaxN == 3
LongTf == 10
MaxBatches == 2
MaxLabel == 1

(* ------------------------- notebook literals --------------------------- *)
NotebookFs == 100
NotebookTi == 0
NotebookKp == 5
NotebookKi == 5
NotebookKdDen == 10
NotebookEpochs == 5

(* ------------------------- rational arithmetic ------------------------- *)
Abs(x) == IF x < 0 THEN -x ELSE x

(* The operations are functions, applied to values: each argument is     *)
(* evaluated once, however often the operation uses it.                    *)
Rat == Int \X Int

GcdOf[a \in Nat, b \in Nat] == IF b = 0 THEN a ELSE GcdOf[b, a % b]
GCD(a, b) == GcdOf[a, b]

NormOf[n \in Int, d \in Int] ==
    LET g == GCD(Abs(n), Abs(d))
        s == IF d < 0 THEN -1 ELSE 1
    IN  <<(s * n) \div g, (s * d) \div g>>
Norm(n, d) == NormOf[n, d]

R(k) == <<k, 1>>
Zero == R(0)
One == R(1)

RAddOf[a \in Rat, b \in Rat] ==
    LET g == GCD(a[2], b[2])
        l == (a[2] \div g) * b[2]
    IN  Norm(a[1] * (l \div a[2]) + b[1] * (l \div b[2]), l)
RAdd(a, b) == RAddOf[a, b]
RNeg(a) == <<-a[1], a[2]>>
RSub(a, b) == RAdd(a, RNeg(b))
RMulOf[a \in Rat, b \in Rat] ==
    LET g1 == GCD(Abs(a[1]), b[2])
        g2 == GCD(Abs(b[1]), a[2])
        h1 == IF g1 = 0 THEN 1 ELSE g1
        h2 == IF g2 = 0 THEN 1 ELSE g2
    IN  Norm((a[1] \div h1) * (b[1] \div h2), (a[2] \div h2) * (b[2] \div h1))
RMul(a, b) == RMulOf[a, b]
RDiv(a, b) == RMul(a, Norm(b[2], b[1]))
RLt(a, b) == a[1] * b[2] < b[1] * a[2]
RLe(a, b) == a[1] * b[2] <= b[1] * a[2]
RAbs(a) == <<Abs(a[1]), a[2]>>
Floor(a) == a[1] \div a[2]
Ceil(a) == -((-a[1]) \div a[2])

(* --------------------------- numpy helpers ----------------------------- *)
(* Value of a real variable no cell has assigned yet; the integer          *)
(* n_samples holds 0 until its cell runs (see NDefined).                   *)
None == <<0, 0>>

Zeros(len) == [k \in 1..len |-> Zero]
Ones(len) == [k \in 1..len |-> One]
Scale(c, a) == [k \in 1..Len(a) |-> RMul(c, a[k])]

At(a, k) == a[k + 1]
PutFromIndexOn(a, k, v) == [j \in 1..Len(a) |-> IF j >= k + 1 THEN v ELSE a[j]]

Put(a, k, v) == [a EXCEPT ![k + 1] = v]

ArangeLen(start, stop, step) ==
    LET c == Ceil(RDiv(RSub(stop, start), step))
    IN  IF c > 0 THEN c ELSE 0
Arange(start, stop, step) ==
    [k \in 1..ArangeLen(start, stop, step) |-> RAdd(start, RMul(R(k - 1), step))]

(* ------------------------------ state ---------------------------------- *)
VARIABLES Fs, Tf, Ti, Ts, n_samples, t, tau, Kp, Ki, Kd,
          m, m_cont, y_open_loop, y, y_sp, e, int_e, diff_e, i, pc, err,
          prev, pc2, i2,
          tpc, epoch, batch, loader, lr, weight, grad, output, loss,
          running_loss, losses, printed

(* prev records the configuration, inputs and outputs of the previous      *)
(* execution of the notebook in the same kernel (<<>> when there is none). *)
(* pc2 and i2 are the position and the range iterator of a second          *)
(* execution of the cells in the same kernel, on the same module-level     *)
(* variables.                                                              *)
(* The training notebook: tpc is the position in the training cell, epoch  *)
(* counts the completed passes of the loop over e, batch counts the batches taken from the loader  *)
(* in this epoch, loader holds the label of each batch, weight and grad    *)
(* stand for the model parameters and their .grad, losses records the      *)
(* value of loss.item() of each batch of this epoch, and printed is the    *)
(* sequence of reported training losses.                                   *)

config == <<Fs, Tf, Ti, Ts, n_samples, t, tau, Kp, Ki, Kd>>
inputs == <<m, y_sp>>
outputs == <<m_cont, y_open_loop, y, e, int_e, diff_e>>
other == <<pc2, i2>>
train == <<tpc, epoch, batch, loader, lr, weight, grad, output, loss,
           running_loss, losses, printed>>
vars == <<Fs, Tf, Ti, Ts, n_samples, t, tau, Kp, Ki, Kd,
          m, m_cont, y_open_loop, y, y_sp, e, int_e, diff_e, i, pc, err,
          prev, pc2, i2,
          tpc, epoch, batch, loader, lr, weight, grad, output, loss,
          running_loss, losses, printed>>

(* ------------------------- input value sets ---------------------------- *)
FsSet == {R(k) : k \in (-1)..MaxFs} \cup {R(NotebookFs), Norm(1, 3)}
TfSet == {Norm(k, 2) : k \in (-1)..MaxTf2} \cup {Norm(1, 50), R(9), R(LongTf)}
TauSet == {R(k) : k \in (-1)..MaxTau}
GainSet == {R(k) : k \in 0..MaxGain}
GainTriples ==
    (GainSet \X GainSet \X GainSet)
        \cup {<<R(NotebookKp), R(NotebookKi), Norm(1, NotebookKdDen)>>}
SpSet == {R(k) : k \in 0..MaxSp}
USet == {R(k) : k \in 0..MaxU}

(* Runs longer than MaxN steps are explored only for the stable open-loop  *)
(* plant Ts = 1/2, tau = 1 with the controller switched off.               *)
LongRuns == {<<R(2), R(LongTf)>>}
LongParams == {<<One, <<Zero, Zero, Zero>>>>}

Init ==
    /\ Fs = None /\ Tf = None /\ Ti = None /\ Ts = None
    /\ n_samples = 0 /\ t = <<>>
    /\ tau = None /\ Kp = None /\ Ki = None /\ Kd = None
    /\ m = <<>> /\ m_cont = <<>> /\ y_open_loop = <<>> /\ y = <<>>
    /\ y_sp = <<>> /\ e = <<>> /\ int_e = <<>> /\ diff_e = <<>>
    /\ i = 0
    /\ pc = "init"
    /\ err = "none"
    /\ prev = <<>>
    /\ pc2 = "idle" /\ i2 = 0
    /\ tpc = "setup" /\ epoch = 0 /\ batch = 0 /\ loader = <<>>
    /\ lr = None /\ weight = None /\ grad = None
    /\ output = None /\ loss = None /\ running_loss = None
    /\ losses = <<>> /\ printed = <<>>

(* ---------------- cell "Initialization" (Fs, Tf, Ti, Ts) --------------- *)
InitCellRaises(fs) == fs = Zero

InitCell ==
    /\ pc = "init"
    /\ \E fs \in FsSet, tf \in TfSet :
         /\ fs # Zero => (Floor(RMul(tf, fs)) <= MaxN \/ <<fs, tf>> \in LongRuns)
         /\ Fs' = fs
         /\ Tf' = tf
         /\ Ti' = R(NotebookTi)
         /\ IF InitCellRaises(fs)
              THEN /\ Ts' = Ts
                   /\ pc' = "error"
                   /\ err' = "ZeroDivisionError"
              ELSE /\ Ts' = RDiv(One, fs)
                   /\ pc' = "samples"
                   /\ err' = err
    /\ UNCHANGED <<n_samples, t, tau, Kp, Ki, Kd, inputs, outputs, i,
                   prev, other, train>>

(* ---------------- cell "Number of samples" (n_samples, t) -------------- *)
NSamples(tf, ts) == Floor(RDiv(tf, ts))

SamplesCell ==
    /\ pc = "samples"
    /\ n_samples' = NSamples(Tf, Ts)
    /\ t' = Arange(Ti, Tf, Ts)
    /\ pc' = "params"
    /\ UNCHANGED <<Fs, Tf, Ti, Ts, tau, Kp, Ki, Kd, inputs, outputs, i, err,
                   prev, other, train>>

(* ---------------- cell "Parameters" (tau, Kp, Ki, Kd) ------------------ *)
ParamsCell ==
    /\ pc = "params"
    /\ \E ta \in TauSet, g \in GainTriples :
         /\ n_samples > MaxN => <<ta, g>> \in LongParams
         /\ g \notin GainSet \X GainSet \X GainSet => n_samples < MaxN
         /\ tau' = ta
         /\ Kp' = g[1]
         /\ Ki' = g[2]
         /\ Kd' = g[3]
    /\ pc' = "alloc"
    /\ UNCHANGED <<Fs, Tf, Ti, Ts, n_samples, t, inputs, outputs, i, err,
                   prev, other, train>>

(* ---------------- cell "Step response" (array allocation) -------------- *)
AllocRaises(n) == n + 1 < 0
AllocLen(n) == n + 1
EAllocSetpoint(len) == Scale(R(2), Ones(len))
EAlloc(len) == Zeros(len)

IntEAllocCarried(len) ==
    IF Len(int_e) > 0 THEN [k \in 1..len |-> int_e[Len(int_e)]] ELSE Zeros(len)
IntEAlloc(len) == Zeros(len)

(* The arrays are allocated with the input arrays mm and ysp; the loop     *)
(* cell that follows starts its range at 0.                                *)
Allocate(mm, ysp) ==
    /\ m' = mm
    /\ y_sp' = ysp
    /\ m_cont' = Zeros(AllocLen(n_samples))
    /\ y_open_loop' = Zeros(AllocLen(n_samples))
    /\ y' = Zeros(AllocLen(n_samples))
    /\ e' = EAlloc(AllocLen(n_samples))
    /\ int_e' = IntEAlloc(AllocLen(n_samples))
    /\ diff_e' = Zeros(AllocLen(n_samples))
    /\ i' = 0
    /\ pc' = "loop"
    /\ err' = err

AllocCell ==
    /\ pc = "alloc"
    /\ IF AllocRaises(n_samples)
         THEN /\ pc' = "error"
              /\ err' = "ValueError"
              /\ UNCHANGED <<inputs, outputs, i>>
         ELSE \E u \in USet, sp \in SpSet :
                Allocate(Scale(u, Ones(AllocLen(n_samples))),
                         Scale(sp, Ones(AllocLen(n_samples))))
    /\ UNCHANGED <<config, prev, other, train>>

(* ---------------- simulation loop: one iteration per step -------------- *)
StepRaisesNonPositive(ta) == RLe(ta, Zero)

StepRaisesOnDivergence(ta) ==
    ta = Zero \/ (i >= 1 /\ RLt(R(2), RAbs(At(y_open_loop, i))))

StepRaisesZeroKi(ta) == ta = Zero \/ Ki = Zero

StepRaises(ta) == ta = Zero

YOpenLoopNextNoDecay(ts, ta, yol, mm, k) ==
    RAdd(At(yol, k), RMul(RDiv(ts, ta), At(mm, k)))

YOpenLoopNext(ts, ta, yol, mm, k) ==
    RAdd(RMul(RSub(One, RDiv(ts, ta)), At(yol, k)), RMul(RDiv(ts, ta), At(mm, k)))

YNextOpenDriven(ts, ta, yy, mc, k) ==
    RAdd(RMul(RSub(One, RDiv(ts, ta)), At(yy, k)), RMul(RDiv(ts, ta), At(m, k)))

YNext(ts, ta, yy, mc, k) ==
    RAdd(RMul(RSub(One, RDiv(ts, ta)), At(yy, k)), RMul(RDiv(ts, ta), At(mc, k)))

ENextLookahead(ysp, yy, k) ==
    RSub(At(ysp, IF k + 2 < Len(ysp) THEN k + 2 ELSE k + 1), At(yy, k + 1))

ENextStale(ysp, yy, k) == RSub(At(ysp, k + 1), At(yy, k))

ENext(ysp, yy, k) == RSub(At(ysp, k + 1), At(yy, k + 1))

IntENextInPlace(ts, ie, ee, k) == RAdd(At(ie, k + 1), RMul(ts, At(ee, k + 1)))

IntENextOldError(ts, ie, ee, k) == RAdd(At(ie, k), RMul(ts, At(ee, k)))

IntENext(ts, ie, ee, k) == RAdd(At(ie, k), RMul(ts, At(ee, k + 1)))

DiffENextCentral(ts, ee, k) ==
    RDiv(RSub(At(ee, IF k + 2 < Len(ee) THEN k + 2 ELSE k + 1), At(ee, k)),
         RMul(R(2), ts))

DiffENextUnscaled(ts, ee, k) == RSub(At(ee, k + 1), At(ee, k))

DiffENext(ts, ee, k) == RDiv(RSub(At(ee, k + 1), At(ee, k)), ts)

Clamp(v, lo, hi) == IF RLt(v, lo) THEN lo ELSE IF RLt(hi, v) THEN hi ELSE v

MContNextSaturated(kp, ki, kd, ee, ie, de, k) ==
    Clamp(RAdd(RAdd(RMul(kp, At(ee, k + 1)), RMul(ki, At(ie, k + 1))),
               RMul(kd, At(de, k + 1))),
          R(-5), R(5))

MContNext(kp, ki, kd, ee, ie, de, k) ==
    RAdd(RAdd(RMul(kp, At(ee, k + 1)), RMul(ki, At(ie, k + 1))),
         RMul(kd, At(de, k + 1)))

RangeHasNextShort(k, n) == k < n - 1

RangeHasNext(k, n) == k < n

StepOverwritesInput ==
    /\ pc = "loop"
    /\ RangeHasNext(i, n_samples)
    /\ IF StepRaises(tau)
         THEN /\ pc' = "error"
              /\ err' = "ZeroDivisionError"
              /\ UNCHANGED <<outputs, i, m>>
         ELSE LET yol1 == Put(y_open_loop, i + 1,
                              YOpenLoopNext(Ts, tau, y_open_loop, m, i))
                  y1 == Put(y, i + 1, YNext(Ts, tau, y, m_cont, i))
                  e1 == Put(e, i + 1, ENext(y_sp, y1, i))
                  ie1 == Put(int_e, i + 1, IntENext(Ts, int_e, e1, i))
                  de1 == Put(diff_e, i + 1, DiffENext(Ts, e1, i))
                  mc1 == Put(m_cont, i + 1,
                             MContNext(Kp, Ki, Kd, e1, ie1, de1, i))
              IN  /\ y_open_loop' = yol1
                  /\ y' = y1
                  /\ e' = e1
                  /\ int_e' = ie1
                  /\ diff_e' = de1
                  /\ m_cont' = mc1
                  /\ m' = Put(m, i + 1, At(mc1, i + 1))
                  /\ i' = i + 1
                  /\ pc' = pc
                  /\ err' = err
    /\ UNCHANGED <<config, y_sp, prev, other, train>>

Step ==
    /\ pc = "loop"
    /\ RangeHasNext(i, n_samples)
    /\ IF StepRaises(tau)
         THEN /\ pc' = "error"
              /\ err' = "ZeroDivisionError"
              /\ UNCHANGED <<outputs, i>>
         ELSE LET yol1 == Put(y_open_loop, i + 1,
                              YOpenLoopNext(Ts, tau, y_open_loop, m, i))
                  y1 == Put(y, i + 1, YNext(Ts, tau, y, m_cont, i))
                  e1 == Put(e, i + 1, ENext(y_sp, y1, i))
                  ie1 == Put(int_e, i + 1, IntENext(Ts, int_e, e1, i))
                  de1 == Put(diff_e, i + 1, DiffENext(Ts, e1, i))
                  mc1 == Put(m_cont, i + 1,
                             MContNext(Kp, Ki, Kd, e1, ie1, de1, i))
              IN  /\ y_open_loop' = yol1
                  /\ y' = y1
                  /\ e' = e1
                  /\ int_e' = ie1
                  /\ diff_e' = de1
                  /\ m_cont' = mc1
                  /\ i' = i + 1
                  /\ pc' = pc
                  /\ err' = err
    /\ UNCHANGED <<config, inputs, prev, other, train>>

LoopEnd ==
    /\ pc = "loop"
    /\ ~RangeHasNext(i, n_samples)
    /\ pc' = "done"
    /\ UNCHANGED <<config, inputs, outputs, i, err, prev, other, train>>

(* ---------------- cell "Responses" (plot of t against y[1:]) ----------- *)
TailLen(a) == IF Len(a) = 0 THEN 0 ELSE Len(a) - 1

PlotRaises(tt, yol, yy) == Len(tt) # TailLen(yol) \/ Len(tt) # TailLen(yy)

PlotCell ==
    /\ pc = "done"
    /\ IF PlotRaises(t, y_open_loop, y)
         THEN pc' = "plot_error" /\ err' = "ValueError"
         ELSE pc' = "plotted" /\ err' = err
    /\ UNCHANGED <<config, inputs, outputs, i, prev, other, train>>

Next ==
    \/ InitCell
    \/ SamplesCell
    \/ ParamsCell
    \/ AllocCell
    \/ Step
    \/ LoopEnd
    \/ PlotCell

Spec == Init /\ [][Next]_vars

(* The notebook runs its cells to the end and the loop to exhaustion: a   *)
(* cell that can run does run, and the loop takes its next iteration.      *)
FairSpec == Spec /\ WF_vars(Next)

(* ---------------- a second execution in the same kernel --------------- *)
(* Running the notebook again re-executes the cells from the first one;    *)
(* every kernel variable keeps its value until a cell assigns it again.    *)
Snapshot == <<config, inputs, outputs>>

Restart ==
    /\ pc \in {"plotted", "plot_error"}
    /\ prev = <<>>
    /\ prev' = Snapshot
    /\ pc' = "init"
    /\ UNCHANGED <<config, inputs, outputs, i, err, other, train>>

(* Re-running only the loop cell: the arrays are not allocated again and   *)
(* the loop starts its range at 0 again.  prev then has a fourth element.  *)
RerunLoopCell ==
    /\ pc \in {"done", "plotted", "plot_error"}
    /\ prev = <<>>
    /\ prev' = Snapshot \o <<"loop">>
    /\ pc' = "loop"
    /\ i' = 0
    /\ UNCHANGED <<config, inputs, outputs, err, other, train>>

(* The executions compared with one another: three steps of half a time    *)
(* unit, two time constants, two sets of gains, and input arrays that hold *)
(* one value up to an index and another value after it.                    *)
RerunTimes == {<<R(2), Norm(3, 2)>>}
RerunParams ==
    {<<One, <<One, One, One>>>>, <<R(2), <<One, One, One>>>>,
     <<One, <<Zero, One, Zero>>>>}
RerunU == {Zero, One}
RerunSp == {One, R(2)}

StepTraj(len, S) ==
    {[k \in 1..len |-> IF k <= c THEN a ELSE b] : a \in S, b \in S, c \in 1..len}

RerunInitCell == InitCell /\ <<Fs', Tf'>> \in RerunTimes

RerunParamsCell == ParamsCell /\ <<tau', <<Kp', Ki', Kd'>>>> \in RerunParams

AllocTrajCell ==
    /\ pc = "alloc"
    /\ ~AllocRaises(n_samples)
    /\ \E mm \in StepTraj(AllocLen(n_samples), RerunU),
          ysp \in StepTraj(AllocLen(n_samples), RerunSp) :
         Allocate(mm, ysp)
    /\ UNCHANGED <<config, prev, other, train>>

RerunNext ==
    \/ RerunInitCell
    \/ SamplesCell
    \/ RerunParamsCell
    \/ AllocTrajCell
    \/ Step
    \/ LoopEnd
    \/ PlotCell
    \/ Restart
    \/ RerunLoopCell

RerunSpec == Init /\ [][RerunNext]_vars

(* ------------- two executions interleaved in the same kernel ---------- *)
(* The cells assign module-level variables; a second execution of the same *)
(* cells (B) in the same kernel reads and writes the same variables as the *)
(* first (A).  Only the position pc2 and the range iterator i2 of the loop *)
(* are B's own.  A first runs alone, then runs again while B runs, one     *)
(* cell or one loop iteration at a time.  B runs the cells up to the end   *)
(* of the loop.                                                            *)
ConcParamsA == {<<One, <<One, One, One>>>>}
ConcParamsB == {<<One, <<One, One, One>>>>, <<One, <<Zero, One, Zero>>>>}
ConcInputsA == {<<One, R(2)>>}
ConcInputsB == {<<One, R(2)>>, <<Zero, R(2)>>}

ConcParamsCell == ParamsCell /\ <<tau', <<Kp', Ki', Kd'>>>> \in ConcParamsA

ConcAllocCell ==
    AllocCell /\ <<At(m', 0), At(y_sp', 0)>> \in ConcInputsA

ConcRestart == Restart /\ pc = "plotted"

InitCellB ==
    /\ pc2 = "idle"
    /\ prev # <<>>
    /\ \E p \in RerunTimes :
         /\ Fs' = p[1]
         /\ Tf' = p[2]
         /\ Ti' = R(NotebookTi)
         /\ Ts' = RDiv(One, p[1])
    /\ pc2' = "samples"
    /\ UNCHANGED <<n_samples, t, tau, Kp, Ki, Kd, inputs, outputs, i, pc, err,
                   prev, i2, train>>

SamplesCellB ==
    /\ pc2 = "samples"
    /\ n_samples' = NSamples(Tf, Ts)
    /\ t' = Arange(Ti, Tf, Ts)
    /\ pc2' = "params"
    /\ UNCHANGED <<Fs, Tf, Ti, Ts, tau, Kp, Ki, Kd, inputs, outputs, i, pc, err,
                   prev, i2, train>>

ParamsCellB ==
    /\ pc2 = "params"
    /\ \E p \in ConcParamsB :
         /\ tau' = p[1]
         /\ Kp' = p[2][1]
         /\ Ki' = p[2][2]
         /\ Kd' = p[2][3]
    /\ pc2' = "alloc"
    /\ UNCHANGED <<Fs, Tf, Ti, Ts, n_samples, t, inputs, outputs, i, pc, err,
                   prev, i2, train>>

AllocCellB ==
    /\ pc2 = "alloc"
    /\ \E p \in ConcInputsB :
         /\ m' = Scale(p[1], Ones(AllocLen(n_samples)))
         /\ y_sp' = Scale(p[2], Ones(AllocLen(n_samples)))
    /\ m_cont' = Zeros(AllocLen(n_samples))
    /\ y_open_loop' = Zeros(AllocLen(n_samples))
    /\ y' = Zeros(AllocLen(n_samples))
    /\ e' = EAlloc(AllocLen(n_samples))
    /\ int_e' = IntEAlloc(AllocLen(n_samples))
    /\ diff_e' = Zeros(AllocLen(n_samples))
    /\ i2' = 0
    /\ pc2' = "loop"
    /\ UNCHANGED <<config, i, pc, err, prev, train>>

StepB ==
    /\ pc2 = "loop"
    /\ RangeHasNext(i2, n_samples)
    /\ LET yol1 == Put(y_open_loop, i2 + 1,
                       YOpenLoopNext(Ts, tau, y_open_loop, m, i2))
           y1 == Put(y, i2 + 1, YNext(Ts, tau, y, m_cont, i2))
           e1 == Put(e, i2 + 1, ENext(y_sp, y1, i2))
           ie1 == Put(int_e, i2 + 1, IntENext(Ts, int_e, e1, i2))
           de1 == Put(diff_e, i2 + 1, DiffENext(Ts, e1, i2))
           mc1 == Put(m_cont, i2 + 1, MContNext(Kp, Ki, Kd, e1, ie1, de1, i2))
       IN  /\ y_open_loop' = yol1
           /\ y' = y1
           /\ e' = e1
           /\ int_e' = ie1
           /\ diff_e' = de1
           /\ m_cont' = mc1
    /\ i2' = i2 + 1
    /\ UNCHANGED <<config, inputs, i, pc, err, prev, pc2, train>>

LoopEndB ==
    /\ pc2 = "loop"
    /\ ~RangeHasNext(i2, n_samples)
    /\ pc2' = "done"
    /\ UNCHANGED <<config, inputs, outputs, i, pc, err, prev, i2, train>>

ConcNext ==
    \/ RerunInitCell
    \/ SamplesCell
    \/ ConcParamsCell
    \/ ConcAllocCell
    \/ Step
    \/ LoopEnd
    \/ PlotCell
    \/ ConcRestart
    \/ InitCellB
    \/ SamplesCellB
    \/ ParamsCellB
    \/ AllocCellB
    \/ StepB
    \/ LoopEndB

ConcSpec == Init /\ [][ConcNext]_vars

(* ------------- training notebook: cell "Training for real" ------------ *)
(* The network is stood for by one parameter: the model outputs its        *)
(* weight, the criterion is the squared distance to the batch's label,     *)
(* backward() adds the derivative of the loss to .grad, and the optimizer  *)
(* subtracts lr * .grad from the weight.                                   *)
pid == <<config, inputs, outputs, i, pc, err, prev, other>>

Labels == {R(k) : k \in 0..MaxLabel}
Loaders == UNION {[1..len -> Labels] : len \in 1..MaxBatches}
WeightSet == {Zero, One}
LrSet == {Norm(1, 2), One}

RECURSIVE SumSeq(_)
SumSeq(q) == IF q = <<>> THEN Zero ELSE RAdd(q[1], SumSeq(Tail(q)))

ModelOutput(w) == w
Criterion(out, label) == RMul(RSub(out, label), RSub(out, label))
LossGradient(out, label) == RMul(R(2), RSub(out, label))

TrainSetup ==
    /\ tpc = "setup"
    /\ \E ld \in Loaders, w \in WeightSet, rate \in LrSet :
         /\ loader' = ld
         /\ weight' = w
         /\ lr' = rate
    /\ grad' = None
    /\ epoch' = 0
    /\ tpc' = "epoch"
    /\ UNCHANGED <<batch, output, loss, running_loss, losses, printed, pid>>

RunningLossCarried(rl) == IF rl = None THEN Zero ELSE rl

RunningLossInit(rl) == Zero

EpochNext ==
    /\ tpc = "epoch"
    /\ epoch < NotebookEpochs
    /\ running_loss' = RunningLossInit(running_loss)
    /\ batch' = 0
    /\ losses' = <<>>
    /\ tpc' = "batch"
    /\ UNCHANGED <<epoch, loader, lr, weight, grad, output, loss, printed, pid>>

TrainEnd ==
    /\ tpc = "epoch"
    /\ epoch >= NotebookEpochs
    /\ tpc' = "trained"
    /\ UNCHANGED <<epoch, batch, loader, lr, weight, grad, output, loss,
                   running_loss, losses, printed, pid>>

BatchNext ==
    /\ tpc = "batch"
    /\ batch < Len(loader)
    /\ batch' = batch + 1
    /\ tpc' = "zero_grad"
    /\ UNCHANGED <<epoch, loader, lr, weight, grad, output, loss,
                   running_loss, losses, printed, pid>>

ZeroGradKeeps(g) == g

ZeroGradValue(g) == Zero

ZeroGrad ==
    /\ tpc = "zero_grad"
    /\ grad' = ZeroGradValue(grad)
    /\ tpc' = "forward"
    /\ UNCHANGED <<epoch, batch, loader, lr, weight, output, loss,
                   running_loss, losses, printed, pid>>

Forward ==
    /\ tpc = "forward"
    /\ output' = ModelOutput(weight)
    /\ tpc' = "loss"
    /\ UNCHANGED <<epoch, batch, loader, lr, weight, grad, loss,
                   running_loss, losses, printed, pid>>

ComputeLoss ==
    /\ tpc = "loss"
    /\ loss' = Criterion(output, loader[batch])
    /\ losses' = Append(losses, Criterion(output, loader[batch]))
    /\ tpc' = "backward"
    /\ UNCHANGED <<epoch, batch, loader, lr, weight, grad, output,
                   running_loss, printed, pid>>

AccumulateGrad(g, d) == IF g = None THEN d ELSE RAdd(g, d)

Backward ==
    /\ tpc = "backward"
    /\ grad' = AccumulateGrad(grad, LossGradient(output, loader[batch]))
    /\ tpc' = "step"
    /\ UNCHANGED <<epoch, batch, loader, lr, weight, output, loss,
                   running_loss, losses, printed, pid>>

OptimizerStep ==
    /\ tpc = "step"
    /\ weight' = RSub(weight, RMul(lr, grad))
    /\ tpc' = "add"
    /\ UNCHANGED <<epoch, batch, loader, lr, grad, output, loss,
                   running_loss, losses, printed, pid>>

AddLoss ==
    /\ tpc = "add"
    /\ running_loss' = RAdd(running_loss, loss)
    /\ tpc' = "batch"
    /\ UNCHANGED <<epoch, batch, loader, lr, weight, grad, output, loss,
                   losses, printed, pid>>

(* the else clause of the loop over the batches *)
Report ==
    /\ tpc = "batch"
    /\ batch >= Len(loader)
    /\ printed' = Append(printed, RDiv(running_loss, R(Len(loader))))
    /\ epoch' = epoch + 1
    /\ tpc' = "epoch"
    /\ UNCHANGED <<batch, loader, lr, weight, grad, output, loss,
                   running_loss, losses, pid>>

TrainNext ==
    \/ TrainSetup
    \/ EpochNext
    \/ TrainEnd
    \/ BatchNext
    \/ ZeroGrad
    \/ Forward
    \/ ComputeLoss
    \/ Backward
    \/ OptimizerStep
    \/ AddLoss
    \/ Report

TrainSpec == Init /\ [][TrainNext]_vars

(* ------------------------- derived predicates -------------------------- *)
(* n_samples has been computed / tau has been assigned *)
NDefined == pc \notin {"init", "samples"} /\ Fs # Zero
TauDefined == NDefined /\ pc # "params"
Finished == pc \in {"done", "plotted", "plot_error"}
DoneSteps == 0..(i - 1)

ValidConfig == RLt(Zero, Ts) /\ RLt(Zero, tau) /\ n_samples >= 1

(* ------------------------------ claims --------------------------------- *)

(* C1: after every completed step k the open-loop output obeys             *)
(* y_open[k+1] = (1 - Ts/tau)*y_open[k] + (Ts/tau)*u_open[k], stated here  *)
(* multiplied through by tau; and with Ts = 1/100, tau = 2, u_open[0] = 1  *)
(* the first step yields y_open[1] = 1/200 = 0.005.                       *)
C1_OpenLoopRecurrence ==
    /\ \A k \in DoneSteps :
         RMul(tau, At(y_open_loop, k + 1)) =
           RAdd(RMul(RSub(tau, Ts), At(y_open_loop, k)), RMul(Ts, At(m, k)))
    /\ (i >= 1 /\ Ts = Norm(1, 100) /\ tau = R(2) /\ At(m, 0) = One)
         => At(y_open_loop, 1) = Norm(1, 200)

C1_Witness ==
    /\ i >= 2
    /\ Ts = Norm(1, 100) /\ tau = R(2) /\ At(m, 0) = One
    /\ At(y_open_loop, 0) = Zero
    /\ At(y_open_loop, 1) = Norm(1, 200)

(* C2: after every completed step k the closed-loop output obeys           *)
(* y[k+1] = (1 - Ts/tau)*y[k] + (Ts/tau)*m_cont[k]: it is driven by the    *)
(* controller output of index k, not by the open-loop input.               *)
C2_ClosedLoopRecurrence ==
    \A k \in DoneSteps :
      RMul(tau, At(y, k + 1)) =
        RAdd(RMul(RSub(tau, Ts), At(y, k)), RMul(Ts, At(m_cont, k)))

C2_Witness ==
    /\ i >= 2
    /\ At(m_cont, 1) # Zero
    /\ At(m_cont, 1) # At(m, 1)
    /\ At(m_cont, 2) # At(m_cont, 1)
    /\ At(y, 2) # Zero

(* C3: after every completed step k the controller output is exactly       *)
(* Kp*e[k+1] + Ki*int_e[k+1] + Kd*diff_e[k+1], whatever its magnitude      *)
(* (no saturation or clamping).                                            *)
C3_ControllerOutput ==
    \A k \in DoneSteps :
      At(m_cont, k + 1) =
        RAdd(RMul(At(e, k + 1), Kp),
             RAdd(RMul(At(diff_e, k + 1), Kd), RMul(At(int_e, k + 1), Ki)))

C3_Witness ==
    /\ i >= 1
    /\ RLt(R(5), At(m_cont, 1))
    /\ Kp # Zero /\ Ki # Zero /\ Kd # Zero

(* C4: after every completed step k the error is the setpoint minus the    *)
(* closed-loop output of the same index: e[k+1] + y[k+1] = y_sp[k+1].      *)
C4_Error ==
    \A k \in DoneSteps :
      RAdd(At(e, k + 1), At(y, k + 1)) = At(y_sp, k + 1)

C4_Witness ==
    /\ i >= 2
    /\ At(y, 2) # At(y, 1)
    /\ At(e, 2) # Zero

(* C5: after every completed step k the integral grows by Ts times the     *)
(* new error: int_e[k+1] - int_e[k] = Ts * e[k+1].                         *)
C5_Integral ==
    \A k \in DoneSteps :
      RSub(At(int_e, k + 1), At(int_e, k)) = RMul(Ts, At(e, k + 1))

C5_Witness ==
    /\ i >= 2
    /\ At(e, 2) # At(e, 1)
    /\ At(e, 1) # At(e, 0)
    /\ At(int_e, 2) # At(int_e, 1)

(* C6: after every completed step k the derivative is the backward         *)
(* difference of the error: Ts * diff_e[k+1] = e[k+1] - e[k].              *)
C6_Derivative ==
    \A k \in DoneSteps :
      RMul(Ts, At(diff_e, k + 1)) = RSub(At(e, k + 1), At(e, k))

C6_Witness ==
    /\ i >= 2
    /\ Ts # One
    /\ At(diff_e, 1) # Zero
    /\ At(diff_e, 2) # Zero

OutputArrays == {y_open_loop, y, m_cont, e, int_e, diff_e}
Allocated == pc \in {"loop", "done", "plotted", "plot_error"}

(* C7: for every valid configuration each of the six output trajectories   *)
(* has length n+1 and the time base has length n, n = floor(Tf/Ts).        *)
C7_Lengths ==
    (Allocated /\ ValidConfig) =>
      /\ \A a \in OutputArrays : Len(a) = n_samples + 1
      /\ n_samples = Floor(RDiv(Tf, Ts))
      /\ Len(t) = n_samples

(* C8: index 0 of every output trajectory is zero from allocation on, at   *)
(* every point of the run and after it, even for a nonzero setpoint.       *)
C8_IndexZero ==
    \A a \in OutputArrays : Len(a) > 0 => At(a, 0) = Zero

C8_Witness ==
    /\ pc = "done"
    /\ i >= 2
    /\ At(y_sp, 0) # Zero
    /\ At(m, 0) # Zero
    /\ At(e, 1) # Zero
    /\ At(y_open_loop, 1) # Zero
    /\ \A a \in OutputArrays : At(a, 0) = Zero

C11_NoErrorAllSteps ==
    (TauDefined /\ ValidConfig) =>
      /\ pc # "error"
      /\ i <= n_samples
      /\ Finished =>
           /\ i = n_samples
           /\ \A a \in OutputArrays : Len(a) = n_samples + 1

C11_LoopStarted == pc = "loop" /\ ValidConfig

C11_LoopCompleted == pc = "done" /\ i = n_samples

(* C11: a run with a valid configuration (Ts >= tau included) never raises *)
(* an error, and once its loop has started it reaches the end of the loop  *)
(* having executed exactly n steps, all six trajectories holding n+1       *)
(* elements.                                                               *)
C11_RunsToCompletion ==
    /\ []C11_NoErrorAllSteps
    /\ (C11_LoopStarted ~> C11_LoopCompleted)

C11_Witness ==
    /\ pc = "done"
    /\ ValidConfig
    /\ RLt(tau, Ts)
    /\ i = n_samples
    /\ i >= 3
    /\ RLt(R(5), RAbs(At(y_open_loop, 3)))
    /\ RLt(R(5), RAbs(At(m_cont, 3)))

SameConfig == Len(prev) = 3 /\ prev[1] = config
SameInputs == Len(prev) = 3 /\ prev[2] = inputs

(* C12: two executions with the same configuration and the same inputs     *)
(* produce the same six trajectories: nothing left over from the first     *)
(* execution reaches the second.                                           *)
C12_Deterministic ==
    (Finished /\ SameConfig /\ SameInputs) => prev[3] = outputs

C12_Witness ==
    /\ pc = "done" /\ SameConfig /\ SameInputs
    /\ i = n_samples /\ i >= 3
    /\ At(int_e, i) # Zero
    /\ At(y, i) # Zero
    /\ At(y_open_loop, i) # Zero
    /\ prev[3] = outputs

AgreeBelow(a, b, k) == \A j \in 1..k : a[j] = b[j]
InputsAgreeBelow(k) == \A c \in 1..2 : AgreeBelow(prev[2][c], inputs[c], k)
OutputsAgreeBelow(k) == \A c \in 1..6 : AgreeBelow(prev[3][c], outputs[c], k)

(* C13: when two executions with the same configuration are given inputs   *)
(* that agree at every index below k, their six trajectories agree at      *)
(* every index below k.                                                    *)
C13_Causal ==
    (Finished /\ SameConfig) =>
      \A k \in 0..(n_samples + 1) : InputsAgreeBelow(k) => OutputsAgreeBelow(k)

C13_Witness ==
    /\ pc = "done" /\ SameConfig /\ i = n_samples /\ i >= 3
    /\ InputsAgreeBelow(2)
    /\ At(prev[2][1], 2) # At(m, 2)
    /\ At(prev[2][2], 2) # At(y_sp, 2)
    /\ OutputsAgreeBelow(2)
    /\ At(prev[3][1], 3) # At(y_open_loop, 3)
    /\ At(prev[3][2], 2) # At(y, 2)

(* C14: the loop does not modify its inputs: at every step Ts, tau, Kp,    *)
(* Ki, Kd, n, the setpoint array and the open-loop input array (and the    *)
(* other configuration variables) keep the values they had at loop entry.  *)
C14_InputsReadOnly ==
    [][pc = "loop" => UNCHANGED <<config, inputs>>]_vars

C14_Witness ==
    /\ pc = "done" /\ i = n_samples /\ i >= 3
    /\ At(m_cont, 1) # At(m, 1)
    /\ At(m_cont, 2) # At(m, 2)
    /\ At(y, 3) # At(y_sp, 3)
    /\ \A k \in 0..i : At(m, k) = At(m, 0) /\ At(y_sp, k) = At(y_sp, 0)

Unstable31 ==
    Allocated /\ Ts = R(3) /\ tau = One /\ n_samples >= 1 /\ At(m, 0) # Zero
OppositeSigns(a, b) == RLt(RMul(a, b), Zero)

(* C15 (as stated): with Ts = 3, tau = 1 and a nonzero constant input the  *)
(* run completes, and for every i >= 1 the values y_open[i], y_open[i+1]   *)
(* have opposite signs and the magnitude grows from i to i+1.              *)
C15_AlternatesAndGrows ==
    Unstable31 =>
      \A k \in 1..(i - 1) :
        /\ OppositeSigns(At(y_open_loop, k), At(y_open_loop, k + 1))
        /\ RLt(RAbs(At(y_open_loop, k)), RAbs(At(y_open_loop, k + 1)))

(* C15 (amended): with Ts = 3, tau = 1 and a nonzero constant input u the  *)
(* run raises no error; y_open[i] and y_open[i+1] have opposite signs for  *)
(* every i >= 1; the magnitude never shrinks, stays 3|u| from index 1 to   *)
(* index 2 and grows strictly from each index i >= 2 to the next.          *)
C15_AlternatesGrowsFromTwo ==
    Unstable31 =>
      /\ pc # "error"
      /\ \A k \in 1..(i - 1) :
           /\ OppositeSigns(At(y_open_loop, k), At(y_open_loop, k + 1))
           /\ RLe(RAbs(At(y_open_loop, k)), RAbs(At(y_open_loop, k + 1)))
           /\ k >= 2 =>
                RLt(RAbs(At(y_open_loop, k)), RAbs(At(y_open_loop, k + 1)))
      /\ i >= 2 =>
           /\ RAbs(At(y_open_loop, 1)) = RMul(R(3), RAbs(At(m, 0)))
           /\ RAbs(At(y_open_loop, 2)) = RMul(R(3), RAbs(At(m, 0)))

C15_Witness ==
    /\ Unstable31 /\ pc = "done" /\ i = 3
    /\ At(y_open_loop, 1) = RMul(R(3), At(m, 0))
    /\ At(y_open_loop, 2) = RMul(R(-3), At(m, 0))
    /\ At(y_open_loop, 3) = RMul(R(9), At(m, 0))

Coef == RSub(One, RDiv(Ts, tau))
EdgeCase ==
    /\ Allocated /\ n_samples >= 1
    /\ RLt(Zero, tau) /\ RLe(tau, Ts)
    /\ At(m, 0) # Zero
Incr(k) == RSub(At(y_open_loop, k + 1), At(y_open_loop, k))
Oscillates(k) == RLt(RMul(Incr(k), Incr(k - 1)), Zero)
Diverges(k) == RLt(RAbs(At(y_open_loop, k)), RAbs(At(y_open_loop, k + 1)))

(* C16 (as stated): whenever Ts >= tau (tau > 0) the coefficient           *)
(* 1 - Ts/tau is <= 0 and the open-loop trajectory under a nonzero         *)
(* constant input is oscillatory (successive increments alternate in sign) *)
(* or divergent (the magnitude grows from one index to the next).          *)
C16_OscillatoryOrDivergent ==
    EdgeCase =>
      /\ RLe(Coef, Zero)
      /\ \A k \in 1..(i - 1) : Oscillates(k) \/ Diverges(k)

(* C16 (amended): whenever Ts >= tau > 0 the coefficient is <= 0; for      *)
(* Ts > tau the successive increments of the open-loop output alternate in *)
(* sign, and for Ts > 2*tau they also grow in magnitude; for Ts = tau the  *)
(* output equals the input from index 1 on, without oscillation or growth. *)
C16_OscillatoryAboveTau ==
    EdgeCase =>
      /\ RLe(Coef, Zero)
      /\ RLt(tau, Ts) => \A k \in 1..(i - 1) : Oscillates(k)
      /\ RLt(RMul(R(2), tau), Ts) =>
           \A k \in 1..(i - 1) : RLt(RAbs(Incr(k - 1)), RAbs(Incr(k)))
      /\ Ts = tau => \A k \in 1..i : At(y_open_loop, k) = At(m, 0)

C16_Witness ==
    /\ EdgeCase /\ pc = "done" /\ i = n_samples /\ i >= 2
    /\ Ts = tau
    /\ Coef = Zero
    /\ At(y_open_loop, 1) = At(m, 0)
    /\ At(y_open_loop, 2) = At(m, 0)
    /\ ~Oscillates(1) /\ ~Diverges(1)

HeldLongEnough == RLe(RMul(R(10), tau), RMul(R(n_samples), Ts))

(* C17: for a stable open-loop plant (0 < Ts < tau) driven by a constant   *)
(* unit input for at least ten time constants (n*Ts >= 10*tau) the final   *)
(* open-loop output y_open[n] is within 1/1000 of 1.                       *)
C17_SteadyState ==
    (/\ Finished /\ n_samples >= 1
     /\ RLt(Zero, Ts) /\ RLt(Ts, tau)
     /\ At(m, 0) = One
     /\ HeldLongEnough)
      => RLe(RAbs(RSub(At(y_open_loop, n_samples), One)), Norm(1, 1000))

C17_Witness ==
    /\ pc = "done" /\ i = n_samples /\ n_samples >= 20
    /\ RLt(Zero, Ts) /\ RLt(Ts, tau) /\ HeldLongEnough
    /\ At(m, 0) = One
    /\ At(y_open_loop, n_samples) # One
    /\ RLt(Norm(9, 10), At(y_open_loop, n_samples))
    /\ RLt(At(y_open_loop, 1), Norm(9, 10))

ZeroGain == Kp = Zero \/ Ki = Zero \/ Kd = Zero

(* C19: a valid configuration with any of the gains Kp, Ki, Kd equal to    *)
(* zero (all of them included) never fails: no error is raised, and the    *)
(* finished run has taken its n steps and holds all six trajectories with  *)
(* n+1 elements.                                                           *)
C19_DegenerateGains ==
    (TauDefined /\ ValidConfig /\ ZeroGain) =>
      /\ pc # "error"
      /\ Finished =>
           /\ i = n_samples
           /\ \A a \in OutputArrays : Len(a) = n_samples + 1

C19_Witness ==
    /\ pc = "done" /\ ValidConfig /\ i = n_samples /\ i >= 2
    /\ Kp = Zero /\ Ki = Zero /\ Kd = Zero
    /\ At(e, 2) # Zero
    /\ At(int_e, 2) # Zero
    /\ \A k \in 0..i : At(m_cont, k) = Zero

(* C20: for a valid configuration the time base is the sequence            *)
(* t_k = k*Ts for k = 0..n-1: n points starting at 0, n = floor(Tf/Ts).    *)
C20_TimeBase ==
    (Allocated /\ ValidConfig) =>
      /\ n_samples = Floor(RDiv(Tf, Ts))
      /\ Len(t) = n_samples
      /\ \A k \in 1..Len(t) : t[k] = RMul(R(k - 1), Ts)

FirstStepDone == Allocated /\ ValidConfig /\ i >= 1

(* C28: after the first step of a valid configuration with setpoint r:     *)
(* y[1] = 0 whatever the gains and the setpoint, e[1] = r,                 *)
(* int_e[1] = Ts*r, diff_e[1] = r/Ts (e[0] is 0, not r - y[0]) and         *)
(* m_cont[1] = Kp*r + Ki*Ts*r + Kd*r/Ts; with Ts = 1/100, Kp = 5, Ki = 5,  *)
(* Kd = 1/10 and r = 2 this is m_cont[1] = 301/10 = 30.1.                  *)
C28_FirstStep ==
    FirstStepDone =>
      LET r == At(y_sp, 1) IN
      /\ At(y, 1) = Zero
      /\ At(e, 1) = r
      /\ At(int_e, 1) = RMul(Ts, r)
      /\ At(diff_e, 1) = RDiv(r, Ts)
      /\ At(m_cont, 1) =
           RAdd(RAdd(RMul(Kp, r), RMul(Ki, RMul(Ts, r))), RMul(Kd, RDiv(r, Ts)))
      /\ (/\ Ts = Norm(1, 100) /\ Kp = R(5) /\ Ki = R(5) /\ Kd = Norm(1, 10)
          /\ r = R(2)) => At(m_cont, 1) = Norm(301, 10)

C28_Witness ==
    /\ FirstStepDone /\ pc = "done"
    /\ Ts = Norm(1, 100) /\ Kp = R(5) /\ Ki = R(5) /\ Kd = Norm(1, 10)
    /\ At(y_sp, 1) = R(2)
    /\ At(y, 1) = Zero
    /\ At(diff_e, 1) = R(200)
    /\ At(m_cont, 1) = Norm(301, 10)

(* a <= b, decided on the difference b - a *)
NotAbove(a, b) == RSub(b, a)[1] >= 0

StablePlant ==
    /\ Allocated /\ n_samples >= 1
    /\ RLt(Zero, Ts) /\ RLe(Ts, tau)
    /\ RLe(Zero, At(m, 0))

(* C29: for 0 < Ts <= tau and a constant open-loop input u0 >= 0 the       *)
(* open-loop output never decreases and never overshoots the input:        *)
(* 0 <= y_open[k] <= y_open[k+1] <= u0 for every executed step k.          *)
C29_MonotoneNoOvershoot ==
    StablePlant =>
      \A k \in DoneSteps :
        /\ NotAbove(Zero, At(y_open_loop, k))
        /\ NotAbove(At(y_open_loop, k), At(y_open_loop, k + 1))
        /\ NotAbove(At(y_open_loop, k + 1), At(m, 0))

C29_Witness ==
    /\ StablePlant /\ pc = "done" /\ i = n_samples /\ i >= 3
    /\ RLt(Ts, tau)
    /\ RLt(Zero, At(y_open_loop, 1))
    /\ RLt(At(y_open_loop, 1), At(y_open_loop, 2))
    /\ RLt(At(y_open_loop, 2), At(y_open_loop, 3))
    /\ RLt(At(y_open_loop, 3), At(m, 0))

ControllerOff == Allocated /\ ValidConfig /\ Kp = Zero /\ Ki = Zero /\ Kd = Zero

(* C30: with Kp = Ki = Kd = 0 and a valid configuration the controller     *)
(* output and the closed-loop output are 0 at every index 0..n, the error  *)
(* equals the setpoint at every computed index k >= 1, and int_e and       *)
(* diff_e still follow their recurrences on that error.                    *)
C30_ZeroGains ==
    ControllerOff =>
      /\ \A k \in 0..n_samples : At(m_cont, k) = Zero /\ At(y, k) = Zero
      /\ \A k \in 1..i : At(e, k) = At(y_sp, k)
      /\ \A k \in DoneSteps :
           /\ At(int_e, k + 1) = RAdd(At(int_e, k), RMul(Ts, At(y_sp, k + 1)))
           /\ At(diff_e, k + 1) = RDiv(RSub(At(e, k + 1), At(e, k)), Ts)

C30_Witness ==
    /\ ControllerOff /\ pc = "done" /\ i = n_samples /\ i >= 2
    /\ At(y_sp, 1) # Zero
    /\ At(e, 2) = At(y_sp, 2)
    /\ At(int_e, 2) = RMul(R(2), RMul(Ts, At(y_sp, 1)))
    /\ At(diff_e, 1) # Zero
    /\ At(diff_e, 2) = Zero
    /\ At(y, 2) = Zero /\ At(m_cont, 2) = Zero

(* The six values step i writes at index i+1, computed from the given      *)
(* arrays: <<m_cont, y_open_loop, y, e, int_e, diff_e>>.                   *)
StepValues(mc, yol, yy, ee, ie, de) ==
    LET yol1 == Put(yol, i + 1, YOpenLoopNext(Ts, tau, yol, m, i))
        y1 == Put(yy, i + 1, YNext(Ts, tau, yy, mc, i))
        e1 == Put(ee, i + 1, ENext(y_sp, y1, i))
        ie1 == Put(ie, i + 1, IntENext(Ts, ie, e1, i))
        de1 == Put(de, i + 1, DiffENext(Ts, e1, i))
        mc1 == Put(mc, i + 1, MContNext(Kp, Ki, Kd, e1, ie1, de1, i))
    IN  <<At(mc1, i + 1), At(yol1, i + 1), At(y1, i + 1),
          At(e1, i + 1), At(ie1, i + 1), At(de1, i + 1)>>

(* a with every element of index above i (not written yet) replaced *)
Perturbed(a) == [k \in 1..Len(a) |-> IF k > i + 1 THEN RAdd(a[k], One) ELSE a[k]]
StepPending == pc = "loop" /\ RangeHasNext(i, n_samples) /\ ~StepRaises(tau)
NotYetWritten == \A c \in 1..6 : \A k \in (i + 1)..n_samples : At(outputs[c], k) = Zero
ReadsOnlyWritten ==
    StepValues(Perturbed(m_cont), Perturbed(y_open_loop), Perturbed(y),
               Perturbed(e), Perturbed(int_e), Perturbed(diff_e))
      = StepValues(m_cont, y_open_loop, y, e, int_e, diff_e)
WritesNextIndex ==
    /\ i' = i + 1
    /\ \A c \in 1..6 : At(outputs'[c], i + 1) =
                         StepValues(m_cont, y_open_loop, y, e, int_e, diff_e)[c]
LoopEntered == pc # "loop" /\ pc' = "loop"
LoopLeft == pc = "loop" /\ pc' = "done"

(* C22: the trajectories are filled in increasing index order, in          *)
(* lockstep: the loop starts at i = 0, each step i writes index i+1 of all *)
(* six trajectories and moves to i+1, the loop ends at i = n, so each      *)
(* index 1..n is written once; the indices above i are still unwritten     *)
(* when step i runs, and what step i writes does not depend on them.       *)
C22_InOrder ==
    /\ [](StepPending => (NotYetWritten /\ ReadsOnlyWritten))
    /\ [][/\ LoopEntered => i' = 0
          /\ (StepPending /\ pc' = "loop") => WritesNextIndex
          /\ LoopLeft => i = (IF n_samples > 0 THEN n_samples ELSE 0)]_vars

C22_Witness ==
    /\ StepPending /\ i = 2 /\ n_samples >= 3
    /\ At(y, 2) # Zero /\ At(e, 2) # Zero /\ At(m_cont, 2) # Zero
    /\ At(y_open_loop, 2) # Zero /\ At(int_e, 2) # Zero /\ At(diff_e, 2) # Zero
    /\ At(y, 2) # At(y, 1)
    /\ NotYetWritten

(* C23: step i changes only element i+1 of the six output trajectories,    *)
(* every other element of every trajectory keeps its value, and once the   *)
(* last step has executed no trajectory element changes again.             *)
C23_Frame ==
    [][/\ pc = "loop" =>
            \A c \in 1..6 :
              /\ Len(outputs'[c]) = Len(outputs[c])
              /\ \A k \in 0..n_samples :
                   k # i + 1 => At(outputs'[c], k) = At(outputs[c], k)
       /\ (Allocated /\ ~RangeHasNext(i, n_samples)) => outputs' = outputs]_vars

C23_Witness ==
    /\ pc = "plotted" /\ i = n_samples /\ i >= 3
    /\ \A c \in 1..6 : At(outputs[c], 0) = Zero
    /\ \A c \in 1..6 : At(outputs[c], 2) # Zero
    /\ At(y, 2) # At(y, 1) /\ At(y, 3) # At(y, 2)
    /\ At(m_cont, 2) # At(m_cont, 1) /\ At(m_cont, 3) # At(m_cont, 2)

LoopRerun == Len(prev) = 4

(* C26: executing the loop cell a second time on the same arrays, without  *)
(* allocating them again, leaves all six trajectories as they were after   *)
(* the first execution.                                                    *)
C26_LoopIdempotent ==
    (LoopRerun /\ Finished) => outputs = prev[3]

C26_Witness ==
    /\ LoopRerun /\ pc = "done" /\ i = n_samples /\ i >= 3
    /\ At(int_e, 3) # At(int_e, 2) /\ At(int_e, 2) # At(int_e, 1)
    /\ At(y, 3) # At(y, 2)
    /\ At(y_open_loop, 3) # At(y_open_loop, 2)
    /\ outputs = prev[3]

(* the configuration without the gains: <<Fs, Tf, Ti, Ts, n_samples, t, tau>> *)
Plant(c) == <<c[1], c[2], c[3], c[4], c[5], c[6], c[7]>>
TwoRuns == Len(prev) = 3 /\ Finished
OnlyControllerDiffers == Plant(prev[1]) = Plant(config) /\ prev[2][1] = m
OnlyOpenInputDiffers == prev[1] = config /\ prev[2][2] = y_sp
ClosedLoop(o) == <<o[1], o[3], o[4], o[5], o[6]>>

(* C27: the open-loop and the closed-loop computations do not interfere:   *)
(* two executions that differ only in Kp, Ki, Kd or the setpoint have the  *)
(* same y_open_loop, and two executions that differ only in the open-loop  *)
(* input have the same y, e, int_e, diff_e and m_cont.                     *)
C27_NoInterference ==
    TwoRuns =>
      /\ OnlyControllerDiffers => prev[3][2] = y_open_loop
      /\ OnlyOpenInputDiffers => ClosedLoop(prev[3]) = ClosedLoop(outputs)

C27_OpenLoopWitness ==
    /\ TwoRuns /\ pc = "done" /\ i = n_samples /\ i >= 3
    /\ OnlyControllerDiffers
    /\ <<prev[1][8], prev[1][9], prev[1][10]>> # <<Kp, Ki, Kd>>
    /\ prev[2][2] # y_sp
    /\ prev[3][3] # y
    /\ At(y_open_loop, 3) # Zero
    /\ prev[3][2] = y_open_loop

C27_Witness ==
    /\ TwoRuns /\ pc = "done" /\ i = n_samples /\ i >= 3
    /\ OnlyOpenInputDiffers
    /\ prev[2][1] # m
    /\ prev[3][2] # y_open_loop
    /\ At(y, 3) # Zero
    /\ ClosedLoop(prev[3]) = ClosedLoop(outputs)

PassOrder ==
    {<<"batch", "zero_grad">>, <<"zero_grad", "forward">>, <<"forward", "loss">>,
     <<"loss", "backward">>, <<"backward", "step">>, <<"step", "add">>,
     <<"add", "batch">>}
InPass == tpc \in {"zero_grad", "forward", "loss", "backward", "step", "add"}
GradOfThisBatch ==
    tpc = "step" =>
      /\ output = ModelOutput(weight)
      /\ grad = LossGradient(output, loader[batch])

(* C24: every batch iteration clears the gradients, runs the forward pass, *)
(* computes the loss, runs the backward pass and updates the weights, in   *)
(* this order; the gradient each weight update uses is that of one         *)
(* backward pass on the current batch, never a sum over batches.           *)
C24_TrainingPass ==
    /\ []GradOfThisBatch
    /\ [][/\ (InPass /\ tpc' # tpc) => <<tpc, tpc'>> \in PassOrder
          /\ (tpc = "batch" /\ tpc' \notin {"batch", "zero_grad"}) =>
               batch = Len(loader)
          /\ tpc = "step" =>
               weight' = RSub(weight,
                              RMul(lr, LossGradient(ModelOutput(weight),
                                                    loader[batch])))]_vars

C24_Witness ==
    /\ tpc = "step" /\ epoch >= 1 /\ batch = 2
    /\ loader[1] # loader[2]
    /\ grad # Zero
    /\ grad = LossGradient(output, loader[2])
    /\ LossGradient(output, loader[1]) # Zero

BetweenBatches == tpc = "batch"
Reported == Len(printed') # Len(printed)

(* C25: the running loss is reset to 0 at the start of every epoch; one    *)
(* training loss is reported per epoch, after all batches of the epoch;    *)
(* the reported value is the sum of that epoch's batch losses divided by   *)
(* the number of batches.                                                  *)
C25_EpochLoss ==
    /\ [](/\ Len(printed) = epoch
          /\ BetweenBatches =>
               (running_loss = SumSeq(losses) /\ Len(losses) = batch))
    /\ [][/\ (tpc = "epoch" /\ tpc' = "batch") =>
               (running_loss' = Zero /\ losses' = <<>>)
          /\ Reported =>
               /\ batch = Len(loader)
               /\ Len(losses) = Len(loader)
               /\ epoch' = epoch + 1
               /\ printed' = Append(printed, RDiv(SumSeq(losses),
                                                  R(Len(loader))))]_vars

C25_Witness ==
    /\ tpc = "trained"
    /\ Len(printed) = NotebookEpochs
    /\ Len(loader) = 2
    /\ printed[1] # Zero
    /\ printed[2] # Zero
    /\ printed[2] # printed[1]
    /\ printed[2] = RDiv(SumSeq(losses), R(2))

====
